---- MODULE Spec2Model ----
(***************************************************************************)
(* A model of fetchr (src/src/main.rs): the request-assembly pipeline of   *)
(* run(), the response rendering that follows it, main()'s error exit and  *)
(* the recursive JSON pretty-printer.                                      *)
(*                                                                         *)
(* Text is a sequence of one-character strings (<<"a", "=", "b">> is the   *)
(* Rust string "a=b"); a byte sequence is the same, with the token BadByte *)
(* standing for a byte that is not valid UTF-8.  Option<T> is a sequence   *)
(* of length at most one: <<>> is None and <<x>> is Some(x).               *)
(***************************************************************************)
EXTENDS Integers, Sequences, FiniteSets, TLC

\* ------------------------------------------------------------------ bounds

\* Longest key=value argument string (query parameter, header).
MaxStrLen == 2
\* Most occurrences of one repeatable flag (-q, -H, -b).
MaxArgs == 2
\* Most nodes (scalars and containers) of a JSON value handed to pretty_print.
MaxNodes == 3

\* ----------------------------------------------------------------- helpers

None == <<>>
Some(x) == <<x>>
IsSome(o) == Len(o) = 1

StrsUpTo(chars, n) == UNION {[1..k -> chars] : k \in 0..n}
ListsUpTo(S, n) == UNION {[1..k -> S] : k \in 0..n}

Contains(s, c) == \E i \in 1..Len(s) : s[i] = c

\* A byte that makes String::from_utf8 fail.
BadByte == "\\xFF"

\* split_once as rsplit_once would be: the text before and after the last '='.
SplitOnceLast(s) ==
    IF Contains(s, "=")
    THEN LET i == CHOOSE i \in 1..Len(s) :
                      s[i] = "=" /\ \A j \in (i + 1)..Len(s) : s[j] # "="
         IN  Some([key |-> SubSeq(s, 1, i - 1), value |-> SubSeq(s, i + 1, Len(s))])
    ELSE None

\* split_once with a default in place of the error: a text without '=' is a
\* key with an empty value.
SplitOnceLenient(s) ==
    IF Contains(s, "=")
    THEN LET i == CHOOSE i \in 1..Len(s) :
                      s[i] = "=" /\ \A j \in 1..(i - 1) : s[j] # "="
         IN  Some([key |-> SubSeq(s, 1, i - 1), value |-> SubSeq(s, i + 1, Len(s))])
    ELSE Some([key |-> s, value |-> <<>>])

\* str::split_once('='): the text before and after the first '=', or None.
SplitOnce(s) ==
    IF Contains(s, "=")
    THEN LET i == CHOOSE i \in 1..Len(s) :
                      s[i] = "=" /\ \A j \in 1..(i - 1) : s[j] # "="
         IN  Some([key |-> SubSeq(s, 1, i - 1), value |-> SubSeq(s, i + 1, Len(s))])
    ELSE None

\* str::strip_prefix('@'): the rest of the text, or None.
StripPrefixAt(s) ==
    IF Len(s) >= 1 /\ s[1] = "@" THEN Some(SubSeq(s, 2, Len(s))) ELSE None

\* enum Error, and the foreign errors run() boxes with `?`.
NoError == [kind |-> "none", text |-> <<>>]
Err(kind, text) == [kind |-> kind, text |-> text]

\* enum BodyContent.
BodyString(s) == [tag |-> "String", data |-> s]
BodyBinary(b) == [tag |-> "Binary", data |-> b]

\* BodyContent::to_string: String::from_utf8 on binary content.
BodyToString(c) ==
    IF c.tag = "Binary" /\ Contains(c.data, BadByte)
    THEN [ok |-> FALSE, s |-> <<>>]
    ELSE [ok |-> TRUE, s |-> c.data]

\* BodyContent::to_bytes.
BodyToBytes(c) == c.data

\* ------------------------------------------------------- serde_json::Value

JNull == [t |-> "null"]
JBool(b) == [t |-> "bool", b |-> b]
JNum(n) == [t |-> "num", n |-> n]
JStr(s) == [t |-> "str", s |-> s]
JArr(items) == [t |-> "arr", items |-> items]
\* members: the map's entries in iteration order, each [k |-> key, v |-> value];
\* keys are distinct.
JObj(members) == [t |-> "obj", members |-> members]

\* serde_json::Map::insert: a new key is added at the end, an existing key
\* keeps its place and takes the new value.
MapInsert(members, k, v) ==
    IF \E i \in 1..Len(members) : members[i].k = k
    THEN [i \in 1..Len(members) |->
             IF members[i].k = k THEN [k |-> k, v |-> v] ELSE members[i]]
    ELSE Append(members, [k |-> k, v |-> v])

\* ------------------------------------------- serde_json5::from_str::<Value>
\* The part of the JSON5 grammar that the texts of this model exercise:
\* white space, null, true, false, signed decimal integers, double-quoted
\* strings with backslash escapes and line continuations, arrays and objects
\* with an optional trailing comma, quoted and identifier keys, and the end
\* of input after the value.  Any other character is a parse error.

WhiteSpace == {" ", "\n", "\t"}
DigitSeq == <<"0", "1", "2", "3", "4", "5", "6", "7", "8", "9">>
IsDigit(c) == \E d \in 1..10 : DigitSeq[d] = c
DigitVal(c) == (CHOOSE d \in 1..10 : DigitSeq[d] = c) - 1
IdentChars == {"a", "b", "c", "e", "f", "l", "n", "o", "r", "s", "t", "u", "x", "_", "$"}

PFail(i, why) == [ok |-> FALSE, val |-> JNull, pos |-> i, why |-> why]
POk(v, i) == [ok |-> TRUE, val |-> v, pos |-> i, why |-> ""]

CharAt(s, i) == IF i >= 1 /\ i <= Len(s) THEN s[i] ELSE ""

RECURSIVE SkipWs(_, _)
SkipWs(s, i) ==
    IF i <= Len(s) /\ s[i] \in WhiteSpace THEN SkipWs(s, i + 1) ELSE i

MatchWord(s, i, w) ==
    i + Len(w) - 1 <= Len(s) /\ SubSeq(s, i, i + Len(w) - 1) = w

\* The character an escape sequence \c stands for; "" marks an escape this
\* model does not decode (\x.., \u....), which is reported as a parse error.
Unescape(c) ==
    CASE c = "n" -> "\n"
      [] c = "t" -> "\t"
      [] c = "r" -> "\r"
      [] c = "b" -> "\\b"
      [] c = "f" -> "\\f"
      [] c = "v" -> "\\v"
      [] c = "0" -> "\\0"
      [] c \in {"x", "u"} -> ""
      [] OTHER -> c

\* The body of a double-quoted string, from position i (after the opening
\* quote): the decoded text and the position after the closing quote.
RECURSIVE ParseStringBody(_, _, _)
ParseStringBody(s, i, acc) ==
    IF i > Len(s) THEN PFail(i, "unterminated string")
    ELSE IF s[i] = "\"" THEN POk(JStr(acc), i + 1)
    ELSE IF s[i] = "\\" THEN
        IF i + 1 > Len(s) THEN PFail(i + 1, "unterminated string")
        ELSE IF s[i + 1] = "\n" THEN ParseStringBody(s, i + 2, acc)
        ELSE IF Unescape(s[i + 1]) = "" THEN PFail(i + 1, "bad escape")
        ELSE ParseStringBody(s, i + 2, Append(acc, Unescape(s[i + 1])))
    ELSE IF s[i] = "\n" THEN PFail(i, "line terminator in string")
    ELSE ParseStringBody(s, i + 1, Append(acc, s[i]))

RECURSIVE ParseDigits(_, _, _)
ParseDigits(s, i, acc) ==
    IF i <= Len(s) /\ IsDigit(s[i])
    THEN ParseDigits(s, i + 1, 10 * acc + DigitVal(s[i]))
    ELSE [n |-> acc, pos |-> i]

\* number = sign? ~ ("0" | nonzero digit ~ digit*)
ParseNumber(s, i) ==
    LET signed == CharAt(s, i) \in {"+", "-"}
        j == IF signed THEN i + 1 ELSE i
        d == IF CharAt(s, j) = "0"
             THEN [n |-> 0, pos |-> j + 1]
             ELSE ParseDigits(s, j, 0)
    IN  IF ~IsDigit(CharAt(s, j)) THEN PFail(j, "expected digit")
        ELSE POk(JNum(IF CharAt(s, i) = "-" THEN 0 - d.n ELSE d.n), d.pos)

RECURSIVE ParseIdent(_, _, _)
ParseIdent(s, i, acc) ==
    IF i <= Len(s) /\ s[i] \in IdentChars
    THEN ParseIdent(s, i + 1, Append(acc, s[i]))
    ELSE POk(JStr(acc), i)

\* key = identifier | string
ParseKey(s, i) ==
    IF CharAt(s, i) = "\"" THEN ParseStringBody(s, i + 1, <<>>)
    ELSE IF CharAt(s, i) \in IdentChars THEN ParseIdent(s, i, <<>>)
    ELSE PFail(i, "expected key")

RECURSIVE ParseValue(_, _)
RECURSIVE ParseItems(_, _, _)
RECURSIVE ParseMembers(_, _, _)

\* value = null | boolean | string | number | object | array
ParseValue(s, i0) ==
    LET i == SkipWs(s, i0)
        c == CharAt(s, i)
    IN  IF MatchWord(s, i, <<"n", "u", "l", "l">>) THEN POk(JNull, i + 4)
        ELSE IF MatchWord(s, i, <<"t", "r", "u", "e">>) THEN POk(JBool(TRUE), i + 4)
        ELSE IF MatchWord(s, i, <<"f", "a", "l", "s", "e">>) THEN POk(JBool(FALSE), i + 5)
        ELSE IF c = "\"" THEN ParseStringBody(s, i + 1, <<>>)
        ELSE IF IsDigit(c) \/ c \in {"+", "-"} THEN ParseNumber(s, i)
        ELSE IF c = "[" THEN ParseItems(s, i + 1, <<>>)
        ELSE IF c = "{" THEN ParseMembers(s, i + 1, <<>>)
        ELSE PFail(i, "expected value")

\* array = "[" ~ "]" | "[" ~ value ~ ("," ~ value)* ~ ","? ~ "]", from the
\* position after "[" or after a ",".
ParseItems(s, i0, acc) ==
    LET i == SkipWs(s, i0)
    IN  IF CharAt(s, i) = "]" THEN POk(JArr(acc), i + 1)
        ELSE LET r == ParseValue(s, i)
                 j == SkipWs(s, r.pos)
             IN  IF ~r.ok THEN r
                 ELSE IF CharAt(s, j) = "," THEN ParseItems(s, j + 1, Append(acc, r.val))
                 ELSE IF CharAt(s, j) = "]" THEN POk(JArr(Append(acc, r.val)), j + 1)
                 ELSE PFail(j, "expected , or ]")

\* object = "{" ~ "}" | "{" ~ pair ~ ("," ~ pair)* ~ ","? ~ "}", with
\* pair = key ~ ":" ~ value.
ParseMembers(s, i0, acc) ==
    LET i == SkipWs(s, i0)
    IN  IF CharAt(s, i) = "}" THEN POk(JObj(acc), i + 1)
        ELSE LET k == ParseKey(s, i)
                 c == SkipWs(s, k.pos)
                 r == ParseValue(s, c + 1)
                 j == SkipWs(s, r.pos)
             IN  IF ~k.ok THEN k
                 ELSE IF CharAt(s, c) # ":" THEN PFail(c, "expected :")
                 ELSE IF ~r.ok THEN r
                 ELSE IF CharAt(s, j) = ","
                      THEN ParseMembers(s, j + 1, MapInsert(acc, k.val.s, r.val))
                 ELSE IF CharAt(s, j) = "}"
                      THEN POk(JObj(MapInsert(acc, k.val.s, r.val)), j + 1)
                 ELSE PFail(j, "expected , or }")

\* text = SOI ~ value ~ EOI
Json5FromStr(s) ==
    LET r == ParseValue(s, 1)
        e == SkipWs(s, r.pos)
    IN  IF ~r.ok THEN r
        ELSE IF e # Len(s) + 1 THEN PFail(e, "expected end of input")
        ELSE r

\* The diagnostic a serde_json5::Error carries: the message and the position.
Diagnostic(r) == <<r.why, ToString(r.pos)>>


\* ------------------------------------------------------------ pretty_print
\* What the colored crate writes around a piece of text when colorization is
\* on: an escape sequence selecting the style, then the text, then the reset.

Reset == "\\e[0m"
BrightBlack == "\\e[90m"
BrightGreen == "\\e[92m"
BrightMagenta == "\\e[95m"
BrightCyan == "\\e[96m"
BoldBrightYellow == "\\e[1;93m"
ColorCodes == {Reset, BrightBlack, BrightGreen, BrightMagenta, BrightCyan, BoldBrightYellow}

Paint(text, code, colorize) ==
    IF colorize THEN <<code>> \o text \o <<Reset>> ELSE text

RECURSIVE NatToStr(_)
NatToStr(n) ==
    IF n < 10 THEN <<DigitSeq[n + 1]>>
    ELSE NatToStr(n \div 10) \o <<DigitSeq[(n % 10) + 1]>>

\* serde_json::Number's Display, for an integer.
NumberToString(n) == IF n < 0 THEN <<"-">> \o NatToStr(0 - n) ELSE NatToStr(n)

BoolToString(b) ==
    IF b THEN <<"t", "r", "u", "e">> ELSE <<"f", "a", "l", "s", "e">>

\* fn print_indent
RECURSIVE print_indent(_)
print_indent(depth) ==
    IF depth = 0 THEN <<>> ELSE <<" ", " ">> \o print_indent(depth - 1)

RECURSIVE pretty_print(_, _, _)
RECURSIVE PrintArrayItems(_, _, _, _)
RECURSIVE PrintObjectMembers(_, _, _, _)

\* The `for value in values.iter()` loop of the Array arm, from element i.
PrintArrayItems(values, i, depth, c) ==
    IF i > Len(values) THEN <<>>
    ELSE print_indent(depth + 1)
         \o pretty_print(values[i], depth + 1, c)
         \o Paint(<<",">>, BrightBlack, c) \o <<"\n">>
         \o PrintArrayItems(values, i + 1, depth, c)

\* The `for (key, value) in map.iter()` loop of the Object arm, from entry i.
PrintObjectMembers(members, i, depth, c) ==
    IF i > Len(members) THEN <<>>
    ELSE print_indent(depth + 1)
         \o Paint(<<"\"">>, BrightBlack, c)
         \o Paint(members[i].k, BoldBrightYellow, c)
         \o Paint(<<"\"", ":">>, BrightBlack, c) \o <<" ">>
         \o pretty_print(members[i].v, depth + 1, c)
         \o Paint(<<",">>, BrightBlack, c) \o <<"\n">>
         \o PrintObjectMembers(members, i + 1, depth, c)

\* fn pretty_print: the text written to standard output for `value` at `depth`,
\* with colorization on (c) or off.
pretty_print(value, depth, c) ==
    CASE value.t = "null" -> Paint(<<"n", "u", "l", "l">>, BrightMagenta, c)
      [] value.t = "bool" -> Paint(BoolToString(value.b), BrightMagenta, c)
      [] value.t = "num" -> Paint(NumberToString(value.n), BrightCyan, c)
      [] value.t = "str" ->
            Paint(<<"\"">>, BrightGreen, c)
            \o Paint(value.s, BrightGreen, c)
            \o Paint(<<"\"">>, BrightGreen, c)
      [] value.t = "arr" ->
            LET multi_line == Len(value.items) # 0
            IN  Paint(<<"[">>, BrightBlack, c)
                \o (IF multi_line THEN <<"\n">> ELSE <<>>)
                \o PrintArrayItems(value.items, 1, depth, c)
                \o (IF multi_line THEN print_indent(depth) ELSE <<>>)
                \o Paint(<<"]">>, BrightBlack, c)
      [] value.t = "obj" ->
            Paint(<<"{">>, BrightBlack, c) \o <<"\n">>
            \o PrintObjectMembers(value.members, 1, depth, c)
            \o print_indent(depth)
            \o Paint(<<"}">>, BrightBlack, c)


\* ------------------------------------------------------------------ base64
\* BASE64_STANDARD.encode over the bytes of a string.

\* The byte of an ASCII character of this model's alphabets.
Ord(c) ==
    CASE c = "u" -> 117
      [] c = "p" -> 112
      [] c = ":" -> 58
      [] c = "a" -> 97
      [] OTHER -> 63

\* str::as_bytes
AsBytes(s) == [i \in 1..Len(s) |-> Ord(s[i])]

Base64Alphabet ==
    <<"A", "B", "C", "D", "E", "F", "G", "H", "I", "J", "K", "L", "M",
      "N", "O", "P", "Q", "R", "S", "T", "U", "V", "W", "X", "Y", "Z",
      "a", "b", "c", "d", "e", "f", "g", "h", "i", "j", "k", "l", "m",
      "n", "o", "p", "q", "r", "s", "t", "u", "v", "w", "x", "y", "z",
      "0", "1", "2", "3", "4", "5", "6", "7", "8", "9", "+", "/">>

B64(n) == Base64Alphabet[n + 1]

RECURSIVE Base64Encode(_)
Base64Encode(b) ==
    IF Len(b) = 0 THEN <<>>
    ELSE IF Len(b) = 1
    THEN <<B64(b[1] \div 4), B64((b[1] % 4) * 16), "=", "=">>
    ELSE IF Len(b) = 2
    THEN <<B64(b[1] \div 4), B64((b[1] % 4) * 16 + b[2] \div 16),
           B64((b[2] % 16) * 4), "=">>
    ELSE <<B64(b[1] \div 4), B64((b[1] % 4) * 16 + b[2] \div 16),
           B64((b[2] % 16) * 4 + b[3] \div 64), B64(b[3] % 64)>>
         \o Base64Encode(SubSeq(b, 4, Len(b)))

\* ------------------------------------------------------------------- state

VARIABLES
    args,       \* struct Cli, as Cli::parse() returned it
    env,        \* what the run meets: files, stdin, the prompt, the network, ttys
    pc,         \* where run() and main() are
    err,        \* the error run() returned, or NoError
    url_query,  \* the query pairs appended to `url`
    request,    \* the reqwest RequestBuilder: its headers, its body, its pending error
    bodies,     \* the `bodies` vector of loaded body fragments
    prompts,    \* how often rpassword::prompt_password was called
    stdin_reads,\* how often standard input was read to its end
    requests,   \* how often client.execute was called
    override,   \* colored's process-wide override: "unset", "on" or "off"
    out,        \* the writes to stdout and stderr, in order
    exit_code,  \* the process's exit code, once it has exited
    pp          \* a pretty_print call on its own: its value, colorization and output

vars == <<args, env, pc, err, url_query, request, bodies, prompts, stdin_reads,
          requests, override, out, exit_code, pp>>


\* ------------------------------------------------------------------ inputs

ValidUrl == <<"http://h/">>
\* A URL text without a scheme: reqwest::Url::parse rejects it.
RelativeUrl == <<"h">>
\* reqwest::Url::parse(&args.url)
UrlParseOk(url) == url = ValidUrl

FileNames == {<<"f">>}
Readable(data) == [ok |-> TRUE, data |-> data]
Unreadable == [ok |-> FALSE, data |-> <<>>]
FileContents ==
    {Readable(<<"1">>), Readable(<<"a", "=", "1">>), Readable(<<BadByte>>), Unreadable}

NoBodyType == [json |-> FALSE, url_encoded |-> FALSE, form |-> FALSE]
\* struct BodyType is a clap group with multiple = false: at most one flag set.
BodyTypes ==
    {bt \in [json : BOOLEAN, url_encoded : BOOLEAN, form : BOOLEAN] :
        Cardinality({f \in {"json", "url_encoded", "form"} : bt[f]}) <= 1}

CONTENT_TYPE == <<"content-type">>
AUTHORIZATION == <<"authorization">>
ApplicationJson == "application/json"

DefaultResponse ==
    [status |-> 200, headers |-> <<>>, body |-> <<"o", "k">>]

DefaultArgs ==
    [url |-> ValidUrl, query_params |-> <<>>, headers |-> <<>>,
     print_headers |-> FALSE, auth |-> None, user |-> None,
     bodies |-> <<>>, path |-> None, body_type |-> NoBodyType]

DefaultEnv ==
    [client_ok |-> TRUE,
     files |-> [n \in FileNames |-> Readable(<<"1">>)],
     stdin |-> <<"1">>,
     prompt |-> [ok |-> TRUE, password |-> <<"p">>],
     execute_ok |-> TRUE, read_ok |-> TRUE,
     response |-> DefaultResponse,
     stderr_tty |-> FALSE, stdout_tty |-> FALSE, color_env |-> TRUE]

Input(a, e) == [args |-> a, env |-> e]

\* key=value argument strings, with and without '=', and with more than one.
KVStrs ==
    StrsUpTo({"a", "="}, MaxStrLen)
    \cup {<<"a", "=", "b">>, <<"a", "=", "b", "=", "c">>}
KVLists == ListsUpTo(KVStrs, MaxArgs)

QueryInputs ==
    {Input([DefaultArgs EXCEPT !.query_params = q], DefaultEnv) : q \in KVLists}

HeaderInputs ==
    {Input([DefaultArgs EXCEPT !.headers = h], DefaultEnv) : h \in KVLists}

\* struct AuthType is a clap group with multiple = false: --auth or --user.
UserStrs == StrsUpTo({"u", ":"}, MaxStrLen)
Prompts ==
    {[ok |-> FALSE, password |-> <<>>], [ok |-> TRUE, password |-> <<>>],
     [ok |-> TRUE, password |-> <<"p">>], [ok |-> TRUE, password |-> <<"p", ":">>]}
AuthInputs ==
    {Input([DefaultArgs EXCEPT !.auth = Some(<<"t">>)], DefaultEnv)}
    \cup {Input([DefaultArgs EXCEPT !.user = Some(u)],
                [DefaultEnv EXCEPT !.prompt = pr]) : u \in UserStrs, pr \in Prompts}

\* -b fragments: literal text (JSON, JSON5 only, not JSON, key=value, "-") and
\* the file reference @f.
FileRef == <<"@", "f">>
Fragments ==
    {<<"1">>, <<"[", "1", ",", "]">>, <<"x">>, <<"-">>,
     <<"a", "=", "1">>, <<"b", "=", "=">>, FileRef}
FragmentLists == ListsUpTo(Fragments, MaxArgs)
UsesFile(l) == \E i \in 1..Len(l) : l[i] = FileRef

BodyInputs ==
    UNION {{Input([DefaultArgs EXCEPT !.bodies = l, !.body_type = bt],
                  [DefaultEnv EXCEPT !.files = [n \in FileNames |-> fc]]) :
               bt \in BodyTypes,
               fc \in {c \in FileContents : UsesFile(l) \/ c = Readable(<<"1">>)}} :
           l \in FragmentLists}

\* -i PATH of src/cli.rs, "-" for standard input.
STDIN == <<"-">>
PathInputs ==
    {Input([DefaultArgs EXCEPT !.path = Some(pth)],
           [DefaultEnv EXCEPT !.stdin = sin, !.files = [n \in FileNames |-> fc]]) :
        pth \in {STDIN, <<"f">>, <<"g">>},
        sin \in {<<>>, <<"1">>, <<"x">>, <<BadByte>>},
        fc \in {Readable(<<"1">>), Unreadable}}

\* Response header values are sequences of pieces; BadByte is an opaque byte,
\* which HeaderValue::to_str rejects.
RespHeader(n, v) == [name |-> n, value |-> v]
CtJson == RespHeader(CONTENT_TYPE, <<ApplicationJson>>)
CtJsonCharset == RespHeader(CONTENT_TYPE, <<ApplicationJson, "; charset=utf-8">>)
CtText == RespHeader(CONTENT_TYPE, <<"text/plain">>)
OpaqueHeader == RespHeader(<<"x-bin">>, <<BadByte>>)
ResponseHeaderLists ==
    {<<>>, <<CtJson>>, <<CtText>>, <<CtJsonCharset>>, <<OpaqueHeader>>,
     <<CtText, CtJson>>, <<CtJson, OpaqueHeader>>, <<OpaqueHeader, CtJson>>}
ResponseBodies ==
    {<<"{", "\"", "a", "\"", ":", "[", "1", ",", "2", "]", ",",
       "\"", "b", "\"", ":", "n", "u", "l", "l", "}">>,
     <<"{", "}">>, <<"[", "1", ",", "]">>, <<"x">>, <<BadByte>>}

ResponseInputs ==
    {Input([DefaultArgs EXCEPT !.print_headers = ph],
           [DefaultEnv EXCEPT !.response = [status |-> 200, headers |-> hs, body |-> b],
                              !.stderr_tty = et, !.stdout_tty = ot, !.color_env = ce]) :
        ph \in BOOLEAN, hs \in ResponseHeaderLists, b \in ResponseBodies,
        et \in BOOLEAN, ot \in BOOLEAN, ce \in BOOLEAN}

StatusCodes == {100, 200, 301, 404, 500, 999}
FailureInputs ==
    {Input([DefaultArgs EXCEPT !.url = RelativeUrl], DefaultEnv),
     Input(DefaultArgs, [DefaultEnv EXCEPT !.client_ok = FALSE]),
     Input(DefaultArgs, [DefaultEnv EXCEPT !.execute_ok = FALSE]),
     Input(DefaultArgs, [DefaultEnv EXCEPT !.read_ok = FALSE])}
    \cup {Input(DefaultArgs, [DefaultEnv EXCEPT !.response.status = s, !.stderr_tty = et]) :
            s \in StatusCodes, et \in BOOLEAN}

Inputs ==
    QueryInputs \cup HeaderInputs \cup AuthInputs \cup BodyInputs \cup PathInputs
    \cup ResponseInputs \cup FailureInputs

\* reqwest's RequestBuilder: the headers and body set so far, and ok = FALSE
\* once a call has failed (the error comes out of build()).
NoBody == [kind |-> "none", bytes |-> <<>>, fields |-> <<>>]
NewRequest == [ok |-> TRUE, headers |-> <<>>, body |-> NoBody]

PPIdle == [value |-> JNull, colorize |-> FALSE, out |-> None]

Init ==
    /\ \E i \in Inputs : args = i.args /\ env = i.env
    /\ pc = "parse_url"
    /\ err = NoError
    /\ url_query = <<>>
    /\ request = NewRequest
    /\ bodies = <<>>
    /\ prompts = 0
    /\ stdin_reads = 0
    /\ requests = 0
    /\ override = "unset"
    /\ out = <<>>
    /\ exit_code = None
    /\ pp = PPIdle


\* ------------------------------------------------- run(): request assembly

\* QueryParamsLoop as it would be with `if let Some(..)` in place of `ok_or_else`:
\* a parameter without '=' is skipped.
RECURSIVE QueryParamsLoopSkipping(_, _, _)
QueryParamsLoopSkipping(params, i, pairs) ==
    IF i > Len(params) THEN [err |-> NoError, pairs |-> pairs]
    ELSE IF SplitOnce(params[i]) = None
    THEN QueryParamsLoopSkipping(params, i + 1, pairs)
    ELSE QueryParamsLoopSkipping(params, i + 1, Append(pairs, SplitOnce(params[i])[1]))

\* The `for query in &args.query_params` loop, from parameter i: the pairs
\* appended to the URL, and the error that ended the loop (or NoError).
RECURSIVE QueryParamsLoop(_, _, _)
QueryParamsLoop(params, i, pairs) ==
    IF i > Len(params) THEN [err |-> NoError, pairs |-> pairs]
    ELSE IF SplitOnce(params[i]) = None
    THEN [err |-> Err("InvalidQueryParam", params[i]), pairs |-> pairs]
    ELSE QueryParamsLoop(params, i + 1, Append(pairs, SplitOnce(params[i])[1]))

\* http::HeaderName::from_bytes accepts a non-empty run of token characters.
NonTokenChars == {" ", "=", ":", "\"", "\n", "@", "[", "]", ",", "{", "}", BadByte}
HeaderNameOk(name) ==
    Len(name) > 0 /\ \A i \in 1..Len(name) : name[i] \notin NonTokenChars

\* RequestBuilder::header: appends the header; a name that is no header name
\* makes the builder fail, and a failed builder ignores every later call.
ReqHeader(req, name, value) ==
    IF req.ok /\ HeaderNameOk(name)
    THEN [req EXCEPT !.headers = Append(@, [name |-> name, value |-> value])]
    ELSE [req EXCEPT !.ok = FALSE]

\* RequestBuilder::body and RequestBuilder::multipart.
ReqBody(req, b) == IF req.ok THEN [req EXCEPT !.body = b] ELSE req

\* The `for header in &args.headers` loop, from header i.
RECURSIVE HeadersLoop(_, _, _)
HeadersLoop(headers, i, req) ==
    IF i > Len(headers) THEN [err |-> NoError, req |-> req]
    ELSE IF SplitOnce(headers[i]) = None
    THEN [err |-> Err("InvalidHeader", headers[i]), req |-> req]
    ELSE HeadersLoop(headers, i + 1,
                     ReqHeader(req, SplitOnce(headers[i])[1].key,
                               SplitOnce(headers[i])[1].value))

BasicPrefix == <<"B", "a", "s", "i", "c", " ">>

\* ResolveUser without the ':' between the user and the prompted password.
ResolveUserNoColon(user, prompt) ==
    IF Contains(user, ":")
    THEN [prompted |-> FALSE, ok |-> TRUE,
          value |-> BasicPrefix \o Base64Encode(AsBytes(user))]
    ELSE IF prompt.ok
    THEN [prompted |-> TRUE, ok |-> TRUE,
          value |-> BasicPrefix \o Base64Encode(AsBytes(user \o prompt.password))]
    ELSE [prompted |-> TRUE, ok |-> FALSE, value |-> <<>>]

\* `if let Some(user) = args.auth_type.user`: the Authorization value, whether
\* the password prompt was called, and whether it failed.
ResolveUser(user, prompt) ==
    IF Contains(user, ":")
    THEN [prompted |-> FALSE, ok |-> TRUE,
          value |-> BasicPrefix \o Base64Encode(AsBytes(user))]
    ELSE IF prompt.ok
    THEN [prompted |-> TRUE, ok |-> TRUE,
          value |-> BasicPrefix
                    \o Base64Encode(AsBytes(user \o <<":">> \o prompt.password))]
    ELSE [prompted |-> TRUE, ok |-> FALSE, value |-> <<>>]

\* std::fs::File::open and read_to_end.
FileRead(files, path) ==
    IF path \in DOMAIN files THEN files[path] ELSE Unreadable

\* LoadFragment without the '@' case: every fragment is literal text.
LoadFragmentLiteral(body, files) ==
    [err |-> NoError, content |-> BodyString(body)]

\* One iteration of `for body in args.bodies`: the BodyContent pushed, or the
\* I/O error.
LoadFragment(body, files) ==
    IF IsSome(StripPrefixAt(body))
    THEN IF FileRead(files, StripPrefixAt(body)[1]).ok
         THEN [err |-> NoError,
               content |-> BodyBinary(FileRead(files, StripPrefixAt(body)[1]).data)]
         ELSE [err |-> Err("Io", StripPrefixAt(body)[1]), content |-> BodyString(<<>>)]
    ELSE [err |-> NoError, content |-> BodyString(body)]

RECURSIVE LoadBodiesLoop(_, _, _, _)
LoadBodiesLoop(list, i, acc, files) ==
    IF i > Len(list) THEN [err |-> NoError, bodies |-> acc]
    ELSE IF LoadFragment(list[i], files).err # NoError
    THEN [err |-> LoadFragment(list[i], files).err, bodies |-> acc]
    ELSE LoadBodiesLoop(list, i + 1, Append(acc, LoadFragment(list[i], files).content),
                        files)

\* The body source `-i PATH`: "-" reads standard input to its end, any other
\* path reads that file; the content is binary.
ReadPath(path, e) ==
    IF path = STDIN
    THEN [err |-> NoError, content |-> BodyBinary(e.stdin), stdin_read |-> 1]
    ELSE IF FileRead(e.files, path).ok
    THEN [err |-> NoError, content |-> BodyBinary(FileRead(e.files, path).data),
          stdin_read |-> 0]
    ELSE [err |-> Err("Io", path), content |-> BodyString(<<>>), stdin_read |-> 0]

\* The `for field in bodies` loop of the multipart branch, from field i.
RECURSIVE FormLoop(_, _, _)
FormLoop(list, i, fields) ==
    IF i > Len(list) THEN [err |-> NoError, fields |-> fields]
    ELSE IF ~BodyToString(list[i]).ok
    THEN [err |-> Err("FromUtf8", <<>>), fields |-> fields]
    ELSE IF SplitOnce(BodyToString(list[i]).s) = None
    THEN [err |-> Err("InvalidFormField", BodyToString(list[i]).s), fields |-> fields]
    ELSE FormLoop(list, i + 1, Append(fields, SplitOnce(BodyToString(list[i]).s)[1]))

\* ConcatLoop validating the concatenated body once, not each fragment.
RECURSIVE ConcatLoopJoined(_, _, _, _)
ConcatLoopJoined(list, i, concatenated_body, body_type) ==
    IF i > Len(list)
    THEN IF body_type.json /\ Contains(concatenated_body, BadByte)
         THEN [err |-> Err("FromUtf8", <<>>), bytes |-> concatenated_body]
         ELSE IF body_type.json /\ Len(list) > 0 /\ ~Json5FromStr(concatenated_body).ok
         THEN [err |-> Err("InvalidJson", Diagnostic(Json5FromStr(concatenated_body))),
               bytes |-> concatenated_body]
         ELSE [err |-> NoError, bytes |-> concatenated_body]
    ELSE ConcatLoopJoined(list, i + 1,
                          (IF body_type.url_encoded
                           THEN Append(concatenated_body, "&")
                           ELSE concatenated_body) \o BodyToBytes(list[i]),
                          body_type)

\* ConcatLoop with the '&' between the fragments only.
RECURSIVE ConcatLoopBetween(_, _, _, _)
ConcatLoopBetween(list, i, concatenated_body, body_type) ==
    IF i > Len(list) THEN [err |-> NoError, bytes |-> concatenated_body]
    ELSE IF body_type.json /\ ~BodyToString(list[i]).ok
    THEN [err |-> Err("FromUtf8", <<>>), bytes |-> concatenated_body]
    ELSE IF body_type.json /\ ~Json5FromStr(BodyToString(list[i]).s).ok
    THEN [err |-> Err("InvalidJson", Diagnostic(Json5FromStr(BodyToString(list[i]).s))),
          bytes |-> concatenated_body]
    ELSE ConcatLoopBetween(list, i + 1,
                           (IF body_type.url_encoded /\ i > 1
                            THEN Append(concatenated_body, "&")
                            ELSE concatenated_body) \o BodyToBytes(list[i]),
                           body_type)

\* The `for body in bodies` loop of the other branch, from fragment i.
RECURSIVE ConcatLoop(_, _, _, _)
ConcatLoop(list, i, concatenated_body, body_type) ==
    IF i > Len(list) THEN [err |-> NoError, bytes |-> concatenated_body]
    ELSE IF body_type.json /\ ~BodyToString(list[i]).ok
    THEN [err |-> Err("FromUtf8", <<>>), bytes |-> concatenated_body]
    ELSE IF body_type.json /\ ~Json5FromStr(BodyToString(list[i]).s).ok
    THEN [err |-> Err("InvalidJson", Diagnostic(Json5FromStr(BodyToString(list[i]).s))),
          bytes |-> concatenated_body]
    ELSE ConcatLoop(list, i + 1,
                    (IF body_type.url_encoded
                     THEN Append(concatenated_body, "&")
                     ELSE concatenated_body) \o BodyToBytes(list[i]),
                    body_type)

\* let mut url = reqwest::Url::parse(&args.url)?;
ParseUrl ==
    /\ pc = "parse_url"
    /\ IF UrlParseOk(args.url)
       THEN pc' = "query_params" /\ err' = err
       ELSE pc' = "failed" /\ err' = Err("InvalidUrl", args.url)
    /\ UNCHANGED <<args, env, url_query, request, bodies, prompts, stdin_reads,
                   requests, override, out, exit_code, pp>>

AddQueryParams ==
    /\ pc = "query_params"
    /\ LET r == QueryParamsLoop(args.query_params, 1, <<>>)
       IN  /\ url_query' = r.pairs
           /\ err' = r.err
           /\ pc' = IF r.err = NoError THEN "build_client" ELSE "failed"
    /\ UNCHANGED <<args, env, request, bodies, prompts, stdin_reads, requests,
                   override, out, exit_code, pp>>

\* The cookie jar, the redirect policy, ClientBuilder::build()? and
\* client.request(method, url).
BuildClient ==
    /\ pc = "build_client"
    /\ IF env.client_ok
       THEN pc' = "headers" /\ err' = err
       ELSE pc' = "failed" /\ err' = Err("ClientBuild", <<>>)
    /\ request' = NewRequest
    /\ UNCHANGED <<args, env, url_query, bodies, prompts, stdin_reads, requests,
                   override, out, exit_code, pp>>

AddHeaders ==
    /\ pc = "headers"
    /\ LET r == HeadersLoop(args.headers, 1, request)
       IN  /\ request' = r.req
           /\ err' = r.err
           /\ pc' = IF r.err = NoError THEN "auth" ELSE "failed"
    /\ UNCHANGED <<args, env, url_query, bodies, prompts, stdin_reads, requests,
                   override, out, exit_code, pp>>

\* The --auth shorthand and the --user basic authentication.
ResolveAuth ==
    /\ pc = "auth"
    /\ LET r1 == IF IsSome(args.auth)
                 THEN ReqHeader(request, AUTHORIZATION, args.auth[1])
                 ELSE request
           u == ResolveUser(args.user[1], env.prompt)
       IN  IF ~IsSome(args.user)
           THEN request' = r1 /\ pc' = "content_type" /\ UNCHANGED <<err, prompts>>
           ELSE /\ prompts' = IF u.prompted THEN prompts + 1 ELSE prompts
                /\ IF u.ok
                   THEN /\ request' = ReqHeader(r1, AUTHORIZATION, u.value)
                        /\ pc' = "content_type"
                        /\ err' = err
                   ELSE /\ request' = r1
                        /\ pc' = "failed"
                        /\ err' = Err("Io", <<"prompt">>)
    /\ UNCHANGED <<args, env, url_query, bodies, stdin_reads, requests, override,
                   out, exit_code, pp>>

SetContentType ==
    /\ pc = "content_type"
    /\ LET r1 == IF args.body_type.url_encoded
                 THEN ReqHeader(request, CONTENT_TYPE,
                                <<"application/x-www-form-urlencoded">>)
                 ELSE request
       IN  request' = IF args.body_type.json
                      THEN ReqHeader(r1, CONTENT_TYPE, <<ApplicationJson>>)
                      ELSE r1
    /\ pc' = "load_bodies"
    /\ UNCHANGED <<args, env, err, url_query, bodies, prompts, stdin_reads, requests,
                   override, out, exit_code, pp>>

LoadBodies ==
    /\ pc = "load_bodies"
    /\ IF IsSome(args.path)
       THEN LET r == ReadPath(args.path[1], env)
            IN  /\ bodies' = IF r.err = NoError THEN <<r.content>> ELSE <<>>
                /\ stdin_reads' = stdin_reads + r.stdin_read
                /\ err' = r.err
                /\ pc' = IF r.err = NoError THEN "assemble" ELSE "failed"
       ELSE LET r == LoadBodiesLoop(args.bodies, 1, <<>>, env.files)
            IN  /\ bodies' = r.bodies
                /\ stdin_reads' = stdin_reads
                /\ err' = r.err
                /\ pc' = IF r.err = NoError THEN "assemble" ELSE "failed"
    /\ UNCHANGED <<args, env, url_query, request, prompts, requests, override, out,
                   exit_code, pp>>

AssembleBody ==
    /\ pc = "assemble"
    /\ IF args.body_type.form
       THEN LET r == FormLoop(bodies, 1, <<>>)
            IN  /\ err' = r.err
                /\ pc' = IF r.err = NoError THEN "build_request" ELSE "failed"
                /\ request' = IF r.err = NoError
                              THEN ReqBody(request, [kind |-> "form", bytes |-> <<>>,
                                                     fields |-> r.fields])
                              ELSE request
       ELSE LET r == ConcatLoop(bodies, 1, <<>>, args.body_type)
            IN  /\ err' = r.err
                /\ pc' = IF r.err = NoError THEN "build_request" ELSE "failed"
                /\ request' = IF r.err = NoError
                              THEN ReqBody(request, [kind |-> "bytes", bytes |-> r.bytes,
                                                     fields |-> <<>>])
                              ELSE request
    /\ UNCHANGED <<args, env, url_query, bodies, prompts, stdin_reads, requests,
                   override, out, exit_code, pp>>

\* let request = request.build()?;
BuildRequest ==
    /\ pc = "build_request"
    /\ IF request.ok
       THEN pc' = "execute" /\ err' = err
       ELSE pc' = "failed" /\ err' = Err("Builder", <<>>)
    /\ UNCHANGED <<args, env, url_query, request, bodies, prompts, stdin_reads,
                   requests, override, out, exit_code, pp>>

\* let mut response = client.execute(request)?;
Execute ==
    /\ pc = "execute"
    /\ requests' = requests + 1
    /\ IF env.execute_ok
       THEN pc' = "print_status" /\ err' = err
       ELSE pc' = "failed" /\ err' = Err("Network", <<>>)
    /\ UNCHANGED <<args, env, url_query, request, bodies, prompts, stdin_reads,
                   override, out, exit_code, pp>>


\* ---------------------------------------------- run(): response rendering

\* colored::control::SHOULD_COLORIZE: a set override decides; without one the
\* environment does.
ShouldColorize(ov, e) ==
    IF ov = "on" THEN TRUE ELSE IF ov = "off" THEN FALSE ELSE e.color_env

\* The bold color of the status line, by status class.
StatusColor(status) ==
    IF status >= 100 /\ status <= 199 THEN "\\e[1;34m"
    ELSE IF status >= 200 /\ status <= 299 THEN "\\e[1;32m"
    ELSE IF status >= 300 /\ status <= 399 THEN "\\e[1;33m"
    ELSE IF status >= 400 /\ status <= 599 THEN "\\e[1;31m"
    ELSE "\\e[1;37m"

BoldYellow == "\\e[1;33m"
Dimmed == "\\e[2m"
Red == "\\e[31m"

\* One write to a stream: what was written, and whether the forced-color
\* override was on while it was written.
Write(stream, what, text, ov) ==
    [stream |-> stream, what |-> what, forced |-> (ov = "on"), text |-> text]

\* HeaderValue::to_str: fails on a byte that is not visible ASCII.
HeaderToStrOk(value) == ~Contains(value, BadByte)

\* The `for (key, value) in response.headers().iter()` loop, from header i:
\* the lines written, and the error of the first value that is no text.
RECURSIVE PrintHeadersLoop(_, _, _, _, _)
PrintHeadersLoop(headers, i, written, ov, e) ==
    IF i > Len(headers) THEN [err |-> NoError, written |-> written]
    ELSE IF ~HeaderToStrOk(headers[i].value)
    THEN [err |-> Err("ToStr", headers[i].name), written |-> written]
    ELSE PrintHeadersLoop(headers, i + 1,
             Append(written,
                    Write("stderr", "header",
                          Paint(headers[i].name, BoldYellow, ShouldColorize(ov, e))
                          \o Paint(<<"=">>, Dimmed, ShouldColorize(ov, e))
                          \o headers[i].value, ov)),
             ov, e)

\* let response_is_json = response.headers().iter().any(...)
ResponseIsJson(headers) ==
    \E i \in 1..Len(headers) :
        /\ headers[i].name = CONTENT_TYPE
        /\ HeaderToStrOk(headers[i].value)
        /\ Contains(headers[i].value, ApplicationJson)

\* The status line, written to stderr with the override forced on when stderr
\* is a terminal.
PrintStatus ==
    /\ pc = "print_status"
    /\ override' = IF env.stderr_tty THEN "on" ELSE override
    /\ out' = Append(out, Write("stderr", "status",
                                Paint(<<ToString(env.response.status)>>,
                                      StatusColor(env.response.status),
                                      ShouldColorize(override', env)),
                                override'))
    /\ pc' = "print_headers"
    /\ UNCHANGED <<args, env, err, url_query, request, bodies, prompts, stdin_reads,
                   requests, exit_code, pp>>

\* `if args.print_headers { ... }` and the set_override(false) after it, which
\* a failing value.to_str()? skips.
PrintHeaders ==
    /\ pc = "print_headers"
    /\ LET r == IF args.print_headers
                THEN PrintHeadersLoop(env.response.headers, 1, <<>>, override, env)
                ELSE [err |-> NoError, written |-> <<>>]
       IN  /\ out' = out \o r.written
           /\ err' = r.err
           /\ pc' = IF r.err = NoError THEN "read_body" ELSE "failed"
           /\ override' = IF r.err = NoError THEN "off" ELSE override
    /\ UNCHANGED <<args, env, url_query, request, bodies, prompts, stdin_reads,
                   requests, exit_code, pp>>

\* response.read_to_end(&mut bytes)?;
ReadBody ==
    /\ pc = "read_body"
    /\ IF env.read_ok
       THEN pc' = "render" /\ err' = err
       ELSE pc' = "failed" /\ err' = Err("Io", <<"response">>)
    /\ UNCHANGED <<args, env, url_query, request, bodies, prompts, stdin_reads,
                   requests, override, out, exit_code, pp>>

\* `if response_is_json { ... } else { ... }`: the body pretty-printed, with
\* the override forced on when stdout is a terminal, or written as it is.
RenderBody ==
    /\ pc = "render"
    /\ IF ResponseIsJson(env.response.headers)
       THEN LET ov == IF env.stdout_tty THEN "on" ELSE override
                utf8 == ~Contains(env.response.body, BadByte)
                parsed == Json5FromStr(env.response.body)
            IN  IF ~utf8
                THEN /\ override' = ov
                     /\ out' = out
                     /\ pc' = "failed"
                     /\ err' = Err("FromUtf8", <<>>)
                ELSE IF ~parsed.ok
                THEN /\ override' = ov
                     /\ out' = out
                     /\ pc' = "failed"
                     /\ err' = Err("Json5", Diagnostic(parsed))
                ELSE /\ override' = "off"
                     /\ out' = Append(out,
                                  Write("stdout", "body",
                                        pretty_print(parsed.val, 0, ShouldColorize(ov, env))
                                        \o <<"\n">>, ov))
                     /\ pc' = "returned"
                     /\ err' = err
       ELSE /\ override' = override
            /\ out' = Append(out, Write("stdout", "body", env.response.body, override))
            /\ pc' = "returned"
            /\ err' = err
    /\ UNCHANGED <<args, env, url_query, request, bodies, prompts, stdin_reads,
                   requests, exit_code, pp>>

\* fn main: an error is written to stderr, "Error:" in red, and the process
\* exits with 1; otherwise it exits with 0.
Main ==
    /\ pc \in {"returned", "failed"}
    /\ IF pc = "failed"
       THEN /\ out' = Append(out, Write("stderr", "error",
                                        Paint(<<"Error:">>, Red,
                                              ShouldColorize(override, env))
                                        \o <<" ", err.kind>>, override))
            /\ exit_code' = Some(1)
       ELSE /\ out' = out
            /\ exit_code' = Some(0)
    /\ pc' = "exited"
    /\ UNCHANGED <<args, env, err, url_query, request, bodies, prompts, stdin_reads,
                   requests, override, pp>>

Next ==
    \/ ParseUrl
    \/ AddQueryParams
    \/ BuildClient
    \/ AddHeaders
    \/ ResolveAuth
    \/ SetContentType
    \/ LoadBodies
    \/ AssembleBody
    \/ BuildRequest
    \/ Execute
    \/ PrintStatus
    \/ PrintHeaders
    \/ ReadBody
    \/ RenderBody
    \/ Main

Spec == Init /\ [][Next]_vars

\* ------------------------------------------------- pretty_print on its own

JStrings == StrsUpTo({"a", "\"", "\\"}, 1)
JKeys == {<<"a">>, <<"b">>}
JLeaves ==
    {JNull, JBool(TRUE), JBool(FALSE), JNum(0), JNum(-12)}
    \cup {JStr(s) : s \in JStrings}

DistinctKeySeqs(m) ==
    {ks \in [1..m -> JKeys] : \A i, j \in 1..m : i # j => ks[i] # ks[j]}

\* The objects whose values are the values of `f`, in that order.
ObjectsOver(f) ==
    {JObj([i \in 1..Len(f) |-> [k |-> ks[i], v |-> f[i]]]) : ks \in DistinctKeySeqs(Len(f))}

\* The JSON values of exactly n nodes, and the sequences of values of n nodes
\* in all.
RECURSIVE ValuesOfSize(_)
RECURSIVE ForestsOfSize(_)
ValuesOfSize(n) ==
    (IF n = 1 THEN JLeaves ELSE {})
    \cup {JArr(f) : f \in ForestsOfSize(n - 1)}
    \cup UNION {ObjectsOver(f) : f \in ForestsOfSize(n - 1)}
ForestsOfSize(n) ==
    IF n = 0 THEN {<<>>}
    ELSE UNION {{<<v>> \o f : v \in ValuesOfSize(k), f \in ForestsOfSize(n - k)} :
                   k \in 1..n}

JsonValues == UNION {ValuesOfSize(n) : n \in 1..MaxNodes}

InitPP ==
    /\ args = DefaultArgs
    /\ env = DefaultEnv
    /\ pc = "pretty_print"
    /\ err = NoError
    /\ url_query = <<>>
    /\ request = NewRequest
    /\ bodies = <<>>
    /\ prompts = 0
    /\ stdin_reads = 0
    /\ requests = 1
    /\ override = "off"
    /\ out = <<>>
    /\ exit_code = None
    /\ \E v \in JsonValues, c \in BOOLEAN :
           pp = [value |-> v, colorize |-> c, out |-> None]

\* pretty_print(&body, 0);
PrettyPrint ==
    /\ pc = "pretty_print"
    /\ pp' = [pp EXCEPT !.out = Some(pretty_print(pp.value, 0, pp.colorize))]
    /\ pc' = "printed"
    /\ UNCHANGED <<args, env, err, url_query, request, bodies, prompts, stdin_reads,
                   requests, override, out, exit_code>>

NextPP == PrettyPrint

SpecPP == InitPP /\ [][NextPP]_vars


\* ================================================================== claims
\* What the arguments and the environment of a run decide, stated on the
\* inputs alone.

HasEq(s) == \E i \in 1..Len(s) : s[i] = "="
AllHaveEq(list) == \A i \in 1..Len(list) : HasEq(list[i])
\* The first string of the list without '='.
FirstWithoutEq(list) ==
    list[CHOOSE i \in 1..Len(list) :
             ~HasEq(list[i]) /\ \A j \in 1..(i - 1) : HasEq(list[j])]

Stages ==
    <<"parse_url", "query_params", "build_client", "headers", "auth", "content_type",
      "load_bodies", "assemble", "build_request", "execute", "print_status",
      "print_headers", "read_body", "render">>
StageIndex(stage) == CHOOSE i \in 1..Len(Stages) : Stages[i] = stage
\* The step `stage` has run (or run() has ended before it).
Done(stage) == pc \notin {Stages[i] : i \in 1..StageIndex(stage)}
Ended == pc \in {"failed", "returned", "exited"}

UrlOk == args.url = ValidUrl
QueryOk == AllHaveEq(args.query_params)
HeadersSplitOk == AllHaveEq(args.headers)
\* Every header has a non-empty name of token characters before its first '='.
HeaderNamesOk ==
    \A i \in 1..Len(args.headers) :
        \E k \in 2..Len(args.headers[i]) :
            /\ args.headers[i][k] = "="
            /\ \A j \in 1..(k - 1) : args.headers[i][j] \notin NonTokenChars
NeedsPrompt == IsSome(args.user) /\ ~Contains(args.user[1], ":")
PromptOk == NeedsPrompt => env.prompt.ok
IsFileRef(f) == Len(f) >= 1 /\ f[1] = "@"
FileOk(path) == path \in DOMAIN env.files /\ env.files[path].ok
LoadOk ==
    IF IsSome(args.path)
    THEN args.path[1] = STDIN \/ FileOk(args.path[1])
    ELSE \A i \in 1..Len(args.bodies) :
             IsFileRef(args.bodies[i]) => FileOk(Tail(args.bodies[i]))

\* The steps before the named one all succeed.
ReachesQuery == UrlOk
ReachesHeaders == ReachesQuery /\ QueryOk /\ env.client_ok
ReachesAuth == ReachesHeaders /\ HeadersSplitOk
ReachesLoad == ReachesAuth /\ PromptOk
ReachesAssemble == ReachesLoad /\ LoadOk

IsUtf8(c) == ~(c.tag = "Binary" /\ \E i \in 1..Len(c.data) : c.data[i] = BadByte)
IsJsonText(c) == IsUtf8(c) /\ Json5FromStr(c.data).ok
FormOk == \A i \in 1..Len(bodies) : IsUtf8(bodies[i]) /\ HasEq(bodies[i].data)
JsonOk == \A i \in 1..Len(bodies) : IsJsonText(bodies[i])
ValidationOk ==
    IF args.body_type.form THEN FormOk
    ELSE IF args.body_type.json THEN JsonOk
    ELSE TRUE
AssemblySucceeds == ReachesAssemble /\ ValidationOk /\ HeaderNamesOk

\* The kinds of error the first failing assembly step raises.
FirstFailureKinds ==
    IF ~UrlOk THEN {"InvalidUrl"}
    ELSE IF ~QueryOk THEN {"InvalidQueryParam"}
    ELSE IF ~env.client_ok THEN {"ClientBuild"}
    ELSE IF ~HeadersSplitOk THEN {"InvalidHeader"}
    ELSE IF ~PromptOk THEN {"Io"}
    ELSE IF ~LoadOk THEN {"Io"}
    ELSE IF ~ValidationOk THEN {"FromUtf8", "InvalidFormField", "InvalidJson"}
    ELSE {"Builder"}

\* C1: the transport is asked to execute at most one request, and only after
\* every assembly step has succeeded; when an assembly step fails the run ends
\* with the error of the first failing step, no request executed and exit code
\* 1; no step is repeated.
C1_OneRequestAfterAssembly ==
    /\ requests \in {0, 1}
    /\ prompts \in {0, 1}
    /\ requests = 1 => AssemblySucceeds /\ Done("execute")
    /\ ~Done("execute") => requests = 0
    /\ (Ended /\ ~AssemblySucceeds) =>
           /\ requests = 0
           /\ err.kind \in FirstFailureKinds
           /\ pc \in {"failed", "exited"}
           /\ pc = "exited" => exit_code = Some(1)
    /\ (Ended /\ AssemblySucceeds) => requests = 1

\* C1 witness: a run that got as far as validating its second body fragment,
\* failed there and exited with 1 without a request.
C1_Witness ==
    /\ pc = "exited"
    /\ err.kind = "InvalidJson"
    /\ Len(bodies) = 2
    /\ requests = 0
    /\ exit_code = Some(1)


Failed == pc \in {"failed", "exited"} /\ err # NoError

\* The first loaded fragment that is not JSON5 text.
FirstNotJson ==
    CHOOSE i \in 1..Len(bodies) :
        ~IsJsonText(bodies[i]) /\ \A j \in 1..(i - 1) : IsJsonText(bodies[j])

\* The bytes of the fragments from fragment i on, one after the other.
RECURSIVE Flatten(_, _)
Flatten(list, i) ==
    IF i > Len(list) THEN <<>> ELSE list[i].data \o Flatten(list, i + 1)

JsonValidated == args.body_type.json /\ ReachesAssemble /\ Done("assemble")

\* C2 as stated: with the JSON flag, when every fragment parses the body is
\* the fragments concatenated in argument order, and otherwise the run fails
\* with InvalidJson carrying the parse diagnostic of the first fragment that
\* does not parse, with no request sent.
C2_AsStated ==
    JsonValidated =>
        IF JsonOk
        THEN /\ err.kind # "InvalidJson"
             /\ request.ok => request.body.kind = "bytes"
                              /\ request.body.bytes = Flatten(bodies, 1)
        ELSE /\ Failed
             /\ err = Err("InvalidJson",
                          Diagnostic(Json5FromStr(bodies[FirstNotJson].data)))
             /\ requests = 0

\* C2 amended: as C2, except that the first fragment that is not JSON5 text
\* fails the run with a UTF-8 decoding error when it is file content that is
\* not valid UTF-8, and with InvalidJson carrying its parse diagnostic only
\* when it is valid UTF-8; in both cases no request is sent.
C2_JsonValidation ==
    JsonValidated =>
        IF JsonOk
        THEN /\ err.kind \notin {"InvalidJson", "FromUtf8"}
             /\ request.ok => request.body.kind = "bytes"
                              /\ request.body.bytes = Flatten(bodies, 1)
        ELSE /\ Failed
             /\ requests = 0
             /\ IF IsUtf8(bodies[FirstNotJson])
                THEN err = Err("InvalidJson",
                               Diagnostic(Json5FromStr(bodies[FirstNotJson].data)))
                ELSE err = Err("FromUtf8", <<>>)

\* C2 witness: two fragments, the first JSON5 text and the second not; the run
\* has failed with InvalidJson.
C2_Witness ==
    /\ JsonValidated
    /\ Len(bodies) = 2
    /\ IsJsonText(bodies[1])
    /\ IsUtf8(bodies[2])
    /\ err.kind = "InvalidJson"
    /\ requests = 0

FormValidated == args.body_type.form /\ ReachesAssemble /\ Done("assemble")
\* Field i is text without '=', and every field before it is a key=value text.
FirstBadField(i) ==
    /\ IsUtf8(bodies[i]) /\ ~HasEq(bodies[i].data)
    /\ \A j \in 1..(i - 1) : IsUtf8(bodies[j]) /\ HasEq(bodies[j].data)

\* C3: a query parameter, header or multipart form field without '=' fails
\* its step with InvalidQueryParam, InvalidHeader or InvalidFormField, and the
\* error carries exactly that string (the first such string of the list).
C3_MissingEqRejected ==
    /\ (ReachesQuery /\ ~QueryOk /\ Done("query_params")) =>
           /\ Failed
           /\ err = Err("InvalidQueryParam", FirstWithoutEq(args.query_params))
           /\ requests = 0
    /\ (ReachesHeaders /\ ~HeadersSplitOk /\ Done("headers")) =>
           /\ Failed
           /\ err = Err("InvalidHeader", FirstWithoutEq(args.headers))
           /\ requests = 0
    /\ FormValidated =>
           \A i \in 1..Len(bodies) :
               FirstBadField(i) =>
                   /\ Failed
                   /\ err = Err("InvalidFormField", bodies[i].data)
                   /\ requests = 0

\* C3 witness: a form whose second field has no '=' has failed with
\* InvalidFormField naming that field.
C3_Witness ==
    /\ FormValidated
    /\ Len(bodies) = 2
    /\ FirstBadField(2)
    /\ err = Err("InvalidFormField", bodies[2].data)

\* `pair` is the split of `s` at its first '='.
SplitAtFirstEq(pair, s) ==
    /\ pair.key \o <<"=">> \o pair.value = s
    /\ ~HasEq(pair.key)
PairsOf(pairs, list) ==
    /\ Len(pairs) = Len(list)
    /\ \A i \in 1..Len(list) : SplitAtFirstEq(pairs[i], list[i])

\* C4: a string with '=' is split at its first '=': the key is the text before
\* it and the value all the text after it; the pairs are applied in argument
\* order, one per argument, duplicates included.
C4_SplitAtFirstEq ==
    /\ (ReachesQuery /\ QueryOk /\ Done("query_params")) =>
           PairsOf(url_query, args.query_params)
    /\ (ReachesAuth /\ Done("headers") /\ request.ok) =>
           /\ Len(request.headers) >= Len(args.headers)
           /\ \A i \in 1..Len(args.headers) :
                  SplitAtFirstEq([key |-> request.headers[i].name,
                                  value |-> request.headers[i].value],
                                 args.headers[i])
    /\ (FormValidated /\ FormOk /\ request.ok) =>
           /\ request.body.kind = "form"
           /\ PairsOf(request.body.fields, [i \in 1..Len(bodies) |-> bodies[i].data])

\* C4 witness: two query parameters with the same key, one of them with a
\* value that holds a '=', have been appended to the URL.
C4_Witness ==
    /\ Len(url_query) = 2
    /\ url_query[1].key = url_query[2].key
    /\ HasEq(url_query[1].value)
    /\ pc = "build_client"

B64Index(c) == CHOOSE n \in 0..63 : Base64Alphabet[n + 1] = c
\* The bytes a padded standard base64 text stands for.
RECURSIVE Base64Decode(_)
Base64Decode(t) ==
    IF Len(t) < 4 THEN <<>>
    ELSE LET a == B64Index(t[1])
             b == B64Index(t[2])
             c == B64Index(t[3])
             d == B64Index(t[4])
         IN  IF t[3] = "="
             THEN <<a * 4 + b \div 16>>
             ELSE IF t[4] = "="
             THEN <<a * 4 + b \div 16, (b % 16) * 16 + c \div 4>>
             ELSE <<a * 4 + b \div 16, (b % 16) * 16 + c \div 4, (c % 4) * 64 + d>>
                  \o Base64Decode(SubSeq(t, 5, Len(t)))

IsAuthorization(h) == h.name = AUTHORIZATION
Credentials ==
    IF Contains(args.user[1], ":")
    THEN args.user[1]
    ELSE args.user[1] \o <<":">> \o env.prompt.password

\* C5: with --user, an argument holding ':' is encoded as it is and nothing is
\* prompted; one without ':' prompts exactly once, before the request is
\* dispatched, and encodes argument, ':' and the entered password; the header
\* is "Basic " and the padded standard base64 of those bytes; a failed prompt
\* ends the run with no request.
C5_BasicAuth ==
    IsSome(args.user) =>
        LET values == SelectSeq(request.headers, IsAuthorization)
            encoded == SubSeq(values[1].value, 7, Len(values[1].value))
        IN  /\ ~Done("auth") => prompts = 0 /\ requests = 0
            /\ (ReachesAuth /\ Done("auth")) =>
                  /\ prompts = IF NeedsPrompt THEN 1 ELSE 0
                  /\ (PromptOk /\ request.ok) =>
                        /\ Len(values) = 1
                        /\ SubSeq(values[1].value, 1, 6) = BasicPrefix
                        /\ Len(encoded) % 4 = 0
                        /\ Base64Decode(encoded) = AsBytes(Credentials)
                  /\ ~PromptOk => Failed /\ requests = 0 /\ Len(values) = 0

\* C5 witness: a user without ':' was prompted once and the request, with its
\* Authorization header, was dispatched.
C5_Witness ==
    /\ IsSome(args.user)
    /\ NeedsPrompt
    /\ prompts = 1
    /\ requests = 1
    /\ Len(SelectSeq(request.headers, IsAuthorization)) = 1

\* Where fragment i starts in the URL-encoded body: after the i - 1 fragments
\* before it and their separators.
RECURSIVE UrlBodyOffset(_)
UrlBodyOffset(i) ==
    IF i = 1 THEN 0 ELSE UrlBodyOffset(i - 1) + 1 + Len(bodies[i - 1].data)

IsTextChar(c) == c \notin ColorCodes
\* The written text with the color codes removed.
StripColor(text) == SelectSeq(text, IsTextChar)

HasNonEmptyContainer(v) ==
    \/ v.t = "arr" /\ Len(v.items) > 0
    \/ v.t = "obj" /\ Len(v.members) > 0

\* C8: pretty_print writes every empty array as [] and every empty object as
\* {} with nothing between the brackets, at every depth, and only a non-empty
\* container makes the output span lines.
C8_EmptyContainersInline ==
    IsSome(pp.out) =>
        LET text == StripColor(pp.out[1])
        IN  /\ \A i \in 1..Len(text) :
                   (\/ text[i] = "[" /\ CharAt(text, SkipWs(text, i + 1)) = "]"
                    \/ text[i] = "{" /\ CharAt(text, SkipWs(text, i + 1)) = "}")
                   => SkipWs(text, i + 1) = i + 1
            /\ ~HasNonEmptyContainer(pp.value) => ~Contains(text, "\n")

\* C9: the text pretty_print writes for a value, with the color codes removed,
\* parses back with the JSON5 parser to that value, its keys in their order.
C9_RoundTrip ==
    IsSome(pp.out) =>
        /\ Json5FromStr(StripColor(pp.out[1])).ok
        /\ Json5FromStr(StripColor(pp.out[1])).val = pp.value

\* C10: the forced-color override is on only while the section it was turned
\* on for is written, and only when that section's stream is a terminal: it is
\* off when run() has returned, with or without an error, and no write to
\* another stream (main's Error: line after a failed body render included)
\* happens under it.
C10_OverrideScoped ==
    /\ Ended => override # "on"
    /\ override = "on" => env.stderr_tty /\ pc = "print_headers"
    /\ \A i \in 1..Len(out) :
           out[i].forced =>
               IF out[i].stream = "stderr"
               THEN env.stderr_tty /\ out[i].what \in {"status", "header"}
               ELSE env.stdout_tty /\ out[i].what = "body"


====
